---- MODULE Spec2Model ----
(***************************************************************************)
(* Model of src/index.ts: the Query node shape and the QueryBuilder class. *)
(*                                                                         *)
(* Objects live in a heap.  heap[q] is the Query object with identity q;   *)
(* a Query's Queries array holds identities of other Query objects.        *)
(* currentQuery[b] is the private field of the QueryBuilder with identity  *)
(* b.  A group() call is in progress between groupCall and groupReturn /   *)
(* groupThrow; the callback it runs may call any method on any builder it  *)
(* can reach through a closure, so every method is enabled while group     *)
(* calls are on the stack.  Calls on a builder other than the one being    *)
(* filled are counted and bounded by MaxForeign.                           *)
(***************************************************************************)
EXTENDS Integers, Sequences, FiniteSets, TLC

(* ---- bounds ---- *)
MaxNodes == 4        \* Query objects ever allocated
MaxSets == 1         \* and()/or()/xor() calls over all builders
MaxBuilds == 1       \* build() calls made by the caller or a callback
MaxRoots == 1        \* builders constructed directly by the caller
MaxForeign == 1      \* calls on a builder other than the one being filled

(* ---- enum Operator (numeric TypeScript enum) ---- *)
And == 0
Or == 1
Xor == 2
Operator == {And, Or, Xor}

(* ---- enum Filter: the members used as inputs ---- *)
GreaterThan == 4
IsNull == 12

\* the value of an omitted argument and of a property that is not set
undefined == -1

\* JavaScript truthiness of a number or undefined, as tested by `if (condition)`
Truthy(x) == x # undefined /\ x # 0

(* ---- interface Query ---- *)
\* keys is the set of own properties of the object; a field whose key is
\* not in keys reads as undefined (Not: FALSE, Queries: the empty tuple)
Keys == {"Operator", "Not", "Property", "Filter", "Value", "Queries"}
LeafKeys == {"Property", "Filter", "Value"}

EmptyObject ==
    [keys |-> {}, Operator |-> undefined, Not |-> FALSE, Property |-> "undefined",
     Filter |-> undefined, Value |-> undefined, Queries |-> << >>]

(* ---- inputs ---- *)
\* constructor / group argument: an Operator or omitted
ConditionArgs == Operator \cup {undefined}
\* the conditions passed to group()
GroupArgs == {undefined, Or}
\* add(property, filter, value?) argument triples
AddArgs == { <<"age", GreaterThan, 18>>, <<"deleted", IsNull, undefined>> }

VARIABLES
    heap,          \* Seq of Query objects; identity = index
    currentQuery,  \* Seq: builder identity -> identity of its currentQuery
    stack,         \* group() calls in progress: [outer, sub] builder identities
    ctor,          \* history: the condition each constructor call received
    owner,         \* history: the builder whose group() call constructed each builder, 0 for the caller
    oplog,         \* history: per builder, its add() calls and completed group() calls in order
    setop,         \* history: per builder, the operator of its latest and()/or()/xor() call
    built,         \* history: identities of the Query objects build() returned
    count,         \* history: numbers of and/or/xor calls, of build calls, of foreign calls
    last           \* history: the call that made the last step

vars == <<heap, currentQuery, stack, ctor, owner, oplog, setop, built, count, last>>

Builders == 1..Len(currentQuery)
Nodes == 1..Len(heap)

\* the builder whose turn it is: the one handed to the innermost running
\* callback, or a builder of the caller when no group() call is in progress
Current ==
    IF stack = << >> THEN {b \in Builders : owner[b] = 0}
    ELSE {stack[Len(stack)].sub}
\* a call on any other builder is foreign: a callback reaches an enclosing
\* builder through its closure, or a sub-builder is used after its callback ended
CanCall(b) == b \in Current \/ count.foreign < MaxForeign
Counted(b) == IF b \in Current THEN count ELSE [count EXCEPT !.foreign = @ + 1]

(* ---- constructor(condition: Operator = Operator.And), lines 87-92 ---- *)
\* faulty variant: Operator is set whenever a condition is present (0 included)
QueryBuilderByPresence(arg) ==
    LET condition == IF arg = undefined THEN And ELSE arg
    IN  [EmptyObject EXCEPT !.keys = {"Not", "Operator"}, !.Not = FALSE,
                            !.Operator = condition]

QueryBuilder(arg) ==
    LET condition == IF arg = undefined THEN And ELSE arg
        q == [EmptyObject EXCEPT !.keys = {"Not"}, !.Not = FALSE]
    IN  IF Truthy(condition)
        THEN [q EXCEPT !.keys = @ \cup {"Operator"}, !.Operator = condition]
        ELSE q

(* ---- the object literal of add(), lines 129-134 ---- *)
\* faulty variant: the literal without Not
LeafNoNot(p, f, v) ==
    [EmptyObject EXCEPT !.keys = {"Property", "Filter", "Value"},
                        !.Property = p, !.Filter = f, !.Value = v]

\* faulty variant: the literal with an Operator as well
LeafWithOperator(p, f, v) ==
    [EmptyObject EXCEPT !.keys = {"Property", "Filter", "Value", "Not", "Operator"},
                        !.Property = p, !.Filter = f, !.Value = v, !.Not = FALSE,
                        !.Operator = And]

Leaf(p, f, v) ==
    [EmptyObject EXCEPT !.keys = {"Property", "Filter", "Value", "Not"},
                        !.Property = p, !.Filter = f, !.Value = v, !.Not = FALSE]

(* ---- `if (!Queries) Queries = []; Queries.push(x)`, lines 135-138, 151-154 ---- *)
Push(q, x) ==
    [q EXCEPT !.keys = @ \cup {"Queries"}, !.Queries = Append(@, x)]

(* ---- `this.currentQuery.Operator = op`, lines 99, 108, 117 ---- *)
\* faulty variant: an Operator already set is kept
SetIfAbsent(q, op) ==
    IF "Operator" \in q.keys THEN q
    ELSE [q EXCEPT !.keys = @ \cup {"Operator"}, !.Operator = op]

SetOperator(q, op) ==
    [q EXCEPT !.keys = @ \cup {"Operator"}, !.Operator = op]

NoArgs == <<"undefined", undefined, undefined>>
\* a call: the method, the builder it was called on, the builder and the
\* Query it returned (0: none), the sub-builder of a group() call, the
\* condition or add() arguments, whether Operator was set before the call
NoCall ==
    [op |-> "none", b |-> 0, retB |-> 0, retQ |-> 0, sub |-> 0,
     condition |-> undefined, args |-> NoArgs, had |-> FALSE]
LogEntry(op, args, child) == [op |-> op, args |-> args, child |-> child]

Init ==
    /\ heap = << >>
    /\ currentQuery = << >>
    /\ stack = << >>
    /\ ctor = << >>
    /\ owner = << >>
    /\ oplog = << >>
    /\ setop = << >>
    /\ built = {}
    /\ count = [sets |-> 0, builds |-> 0, foreign |-> 0]
    /\ last = NoCall

(* ---- new QueryBuilder(arg) by the caller, lines 87-92 ---- *)
construct(arg) ==
    /\ Cardinality({b \in Builders : owner[b] = 0}) < MaxRoots
    /\ Len(heap) < MaxNodes
    /\ heap' = Append(heap, QueryBuilder(arg))
    /\ currentQuery' = Append(currentQuery, Len(heap) + 1)
    /\ ctor' = Append(ctor, arg)
    /\ owner' = Append(owner, 0)
    /\ oplog' = Append(oplog, << >>)
    /\ setop' = Append(setop, undefined)
    /\ last' = [NoCall EXCEPT !.op = "construct", !.retB = Len(currentQuery) + 1,
                              !.condition = arg]
    /\ UNCHANGED <<stack, built, count>>

\* the body shared by and(), or() and xor(): lines 99-100, 108-109, 117-118
set(b, name, op) ==
    /\ CanCall(b)
    /\ count.sets < MaxSets
    /\ heap' = [heap EXCEPT ![currentQuery[b]] = SetOperator(@, op)]
    /\ setop' = [setop EXCEPT ![b] = op]
    /\ count' = [Counted(b) EXCEPT !.sets = @ + 1]
    /\ last' = [NoCall EXCEPT !.op = name, !.b = b, !.retB = b,
                              !.had = "Operator" \in heap[currentQuery[b]].keys]
    /\ UNCHANGED <<currentQuery, stack, ctor, owner, oplog, built>>

(* ---- and(), lines 98-101 ---- *)
and(b) == set(b, "and", And)

(* ---- or(), lines 107-110 ---- *)
or(b) == set(b, "or", Or)

(* ---- xor(), lines 116-119 ---- *)
xor(b) == set(b, "xor", Xor)

(* ---- add(property, filter, value?), lines 128-140 ---- *)
\* faulty variant: unshift in place of push
addFirst(b, args) ==
    /\ CanCall(b)
    /\ Len(heap) < MaxNodes
    /\ LET query == Len(heap) + 1
       IN  /\ heap' = [Append(heap, Leaf(args[1], args[2], args[3]))
                          EXCEPT ![currentQuery[b]] =
                              [@ EXCEPT !.keys = @ \cup {"Queries"},
                                        !.Queries = <<query>> \o @]]
           /\ oplog' = [oplog EXCEPT ![b] = Append(@, LogEntry("add", args, query))]
    /\ count' = Counted(b)
    /\ last' = [NoCall EXCEPT !.op = "add", !.b = b, !.retB = b, !.args = args]
    /\ UNCHANGED <<currentQuery, stack, ctor, owner, setop, built>>

add(b, args) ==
    /\ CanCall(b)
    /\ Len(heap) < MaxNodes
    /\ LET query == Len(heap) + 1
       IN  /\ heap' = [Append(heap, Leaf(args[1], args[2], args[3]))
                          EXCEPT ![currentQuery[b]] = Push(@, query)]
           /\ oplog' = [oplog EXCEPT ![b] = Append(@, LogEntry("add", args, query))]
    /\ count' = Counted(b)
    /\ last' = [NoCall EXCEPT !.op = "add", !.b = b, !.retB = b, !.args = args]
    /\ UNCHANGED <<currentQuery, stack, ctor, owner, setop, built>>

(* ---- build(), lines 162-164 ---- *)
\* faulty variant: build() hands the children over and empties the node
buildAndReset(b) ==
    /\ CanCall(b)
    /\ count.builds < MaxBuilds
    /\ heap' = [heap EXCEPT ![currentQuery[b]] =
                   [@ EXCEPT !.keys = @ \ {"Queries"}, !.Queries = << >>]]
    /\ built' = built \cup {currentQuery[b]}
    /\ count' = [Counted(b) EXCEPT !.builds = @ + 1]
    /\ last' = [NoCall EXCEPT !.op = "build", !.b = b, !.retQ = currentQuery[b]]
    /\ UNCHANGED <<currentQuery, stack, ctor, owner, oplog, setop>>

build(b) ==
    /\ CanCall(b)
    /\ count.builds < MaxBuilds
    /\ built' = built \cup {currentQuery[b]}
    /\ count' = [Counted(b) EXCEPT !.builds = @ + 1]
    /\ last' = [NoCall EXCEPT !.op = "build", !.b = b, !.retQ = currentQuery[b]]
    /\ UNCHANGED <<heap, currentQuery, stack, ctor, owner, oplog, setop>>

(* ---- group(groupAction, condition): entry up to the callback, lines 148-150 ---- *)
\* faulty variant: the sub-builder is constructed without the condition
groupCallNoCondition(b, arg) ==
    /\ CanCall(b)
    /\ Len(heap) < MaxNodes
    /\ LET condition == IF arg = undefined THEN And ELSE arg   \* default parameter, line 148
           group == Len(currentQuery) + 1
       IN  /\ heap' = Append(heap, QueryBuilder(undefined))
           /\ currentQuery' = Append(currentQuery, Len(heap) + 1)
           /\ ctor' = Append(ctor, condition)
           /\ owner' = Append(owner, b)
           /\ oplog' = Append(oplog, << >>)
           /\ setop' = Append(setop, undefined)
           /\ stack' = Append(stack, [outer |-> b, sub |-> group])
           /\ last' = [NoCall EXCEPT !.op = "groupCall", !.b = b, !.sub = group,
                                     !.condition = condition]
    /\ count' = Counted(b)
    /\ UNCHANGED built

groupCall(b, arg) ==
    /\ CanCall(b)
    /\ Len(heap) < MaxNodes
    /\ LET condition == IF arg = undefined THEN And ELSE arg   \* default parameter, line 148
           group == Len(currentQuery) + 1
       IN  /\ heap' = Append(heap, QueryBuilder(condition))
           /\ currentQuery' = Append(currentQuery, Len(heap) + 1)
           /\ ctor' = Append(ctor, condition)
           /\ owner' = Append(owner, b)
           /\ oplog' = Append(oplog, << >>)
           /\ setop' = Append(setop, undefined)
           /\ stack' = Append(stack, [outer |-> b, sub |-> group])
           /\ last' = [NoCall EXCEPT !.op = "groupCall", !.b = b, !.sub = group,
                                     !.condition = condition]
    /\ count' = Counted(b)
    /\ UNCHANGED built

(* ---- group(): the callback returned normally, lines 151-155 ---- *)
\* faulty variant: this.build() is pushed in place of group.build()
groupReturnPushThis ==
    /\ stack # << >>
    /\ LET f == stack[Len(stack)]
           outerQ == currentQuery[f.outer]
       IN  /\ heap' = [heap EXCEPT ![outerQ] = Push(@, outerQ)]
           /\ oplog' = [oplog EXCEPT ![f.outer] =
                           Append(@, LogEntry("group", NoArgs, outerQ))]
           /\ built' = built \cup {outerQ}
           /\ last' = [NoCall EXCEPT !.op = "groupReturn", !.b = f.outer,
                                     !.sub = f.sub, !.retB = f.outer]
    /\ stack' = SubSeq(stack, 1, Len(stack) - 1)
    /\ UNCHANGED <<currentQuery, ctor, owner, setop, count>>

groupReturn ==
    /\ stack # << >>
    /\ LET f == stack[Len(stack)]
           outerQ == currentQuery[f.outer]
           subQ == currentQuery[f.sub]          \* group.build(), line 154
       IN  /\ heap' = [heap EXCEPT ![outerQ] = Push(@, subQ)]
           /\ oplog' = [oplog EXCEPT ![f.outer] =
                           Append(@, LogEntry("group", NoArgs, subQ))]
           /\ built' = built \cup {subQ}
           /\ last' = [NoCall EXCEPT !.op = "groupReturn", !.b = f.outer,
                                     !.sub = f.sub, !.retB = f.outer]
    /\ stack' = SubSeq(stack, 1, Len(stack) - 1)
    /\ UNCHANGED <<currentQuery, ctor, owner, setop, count>>

(* ---- group(): groupAction(group) throws at line 150 and lines 151-155 ---- *)
(* ---- are skipped; the enclosing callback catches the exception or   ---- *)
(* ---- it leaves the outermost call                                    ---- *)
\* faulty variant: the push sits in a finally block
groupThrowFinally ==
    /\ stack # << >>
    /\ LET f == stack[Len(stack)]
       IN  /\ heap' = [heap EXCEPT ![currentQuery[f.outer]] =
                          Push(@, currentQuery[f.sub])]
           /\ last' = [NoCall EXCEPT !.op = "groupThrow", !.b = f.outer,
                                     !.sub = f.sub]
    /\ stack' = SubSeq(stack, 1, Len(stack) - 1)
    /\ UNCHANGED <<currentQuery, ctor, owner, oplog, setop, built, count>>

groupThrow ==
    /\ stack # << >>
    /\ LET f == stack[Len(stack)]
       IN  last' = [NoCall EXCEPT !.op = "groupThrow", !.b = f.outer,
                                  !.sub = f.sub]
    /\ stack' = SubSeq(stack, 1, Len(stack) - 1)
    /\ UNCHANGED <<heap, currentQuery, ctor, owner, oplog, setop, built, count>>

Next ==
    \/ \E arg \in ConditionArgs : construct(arg)
    \/ \E b \in Builders : and(b)
    \/ \E b \in Builders : or(b)
    \/ \E b \in Builders : xor(b)
    \/ \E b \in Builders : \E args \in AddArgs : add(b, args)
    \/ \E b \in Builders : build(b)
    \/ \E b \in Builders : \E arg \in GroupArgs : groupCall(b, arg)
    \/ groupReturn
    \/ groupThrow

Spec == Init /\ [][Next]_vars


(* ======================= properties ======================= *)

Q(b) == heap[currentQuery[b]]
Children(q) == { heap[q].Queries[i] : i \in 1..Len(heap[q].Queries) }
IsPrefix(s, t) == Len(s) <= Len(t) /\ SubSeq(t, 1, Len(s)) = s
\* no method other than build() has been called on b
Fresh(b) ==
    /\ oplog[b] = << >>
    /\ setop[b] = undefined
    /\ \A s \in Builders : owner[s] # b
IsSetCall == last'.op \in {"and", "or", "xor"} /\ count'.sets = count.sets + 1
IsAddCall == last'.op = "add" /\ Len(heap') = Len(heap) + 1
IsGroupReturn == last'.op = "groupReturn" /\ Len(stack') = Len(stack) - 1
IsGroupThrow == last'.op = "groupThrow" /\ Len(stack') = Len(stack) - 1

\* C1: build() on a fresh builder constructed with an explicit operator op
\* returns a node with Operator present and equal to op, Not false and no
\* Queries key.
C1_ExplicitOperatorKept ==
    (last.op = "build" /\ Fresh(last.b) /\ ctor[last.b] \in Operator)
    => LET q == heap[last.retQ]
       IN  q.keys = {"Operator", "Not"} /\ q.Operator = ctor[last.b] /\ q.Not = FALSE

LeafOf(args) ==
    [keys |-> {"Property", "Filter", "Value", "Not"}, Operator |-> undefined,
     Not |-> FALSE, Property |-> args[1], Filter |-> args[2], Value |-> args[3],
     Queries |-> << >>]

\* C3: Queries is append-only and in call order: every step leaves each
\* builder's Queries a prefix of its new value and adds at most one element;
\* add() and a returning group() add exactly one, at the end; and Queries[i]
\* is the child of the i-th completed add()/group() call on that builder, the
\* child of an add() being the leaf of that call's arguments.
C3_AppendOnlyInCallOrder ==
    [][ \A b \in Builders :
          LET old == Q(b).Queries
              new == heap'[currentQuery[b]].Queries
          IN  /\ IsPrefix(old, new)
              /\ Len(new) <= Len(old) + 1
              /\ (IsAddCall /\ last'.b = b) =>
                    /\ new = Append(old, Len(heap'))
                    /\ heap'[Len(heap')] = LeafOf(last'.args)
              /\ (IsGroupReturn /\ last'.b = b) => Len(new) = Len(old) + 1
              /\ Len(new) = Len(oplog'[b])
              /\ \A i \in 1..Len(new) :
                    /\ new[i] = oplog'[b][i].child
                    /\ oplog'[b][i].op = "add" =>
                          heap'[new[i]] = LeafOf(oplog'[b][i].args)
      ]_vars

C3_Witness ==
    \E b \in Builders :
       /\ Len(Q(b).Queries) = 3
       /\ setop[b] # undefined
       /\ oplog[b][1].op = "add" /\ oplog[b][2].op = "add" /\ oplog[b][3].op = "add"
       /\ oplog[b][1].args # oplog[b][2].args
       /\ heap[Q(b).Queries[1]].Property = oplog[b][1].args[1]
       /\ heap[Q(b).Queries[2]].Property = oplog[b][2].args[1]

\* the node of builder b as its constructor argument, its latest
\* and()/or()/xor() call and its add()/group() calls determine it
Expected(b) ==
    LET fresh == QueryBuilder(ctor[b])
        hasOp == "Operator" \in fresh.keys \/ setop[b] # undefined
    IN  [keys |-> {"Not"} \cup (IF hasOp THEN {"Operator"} ELSE {})
                          \cup (IF oplog[b] # << >> THEN {"Queries"} ELSE {}),
         Operator |-> IF setop[b] # undefined THEN setop[b] ELSE fresh.Operator,
         Not |-> FALSE, Property |-> "undefined", Filter |-> undefined,
         Value |-> undefined,
         Queries |-> [i \in 1..Len(oplog[b]) |-> oplog[b][i].child]]

\* C4: a group() call whose callback returns appends exactly one child to the
\* outer builder's Queries, created if absent: the node of the sub-builder,
\* which is what constructing a builder with the condition and applying the
\* callback's calls gives; with condition OR and two add() calls it is
\* { Operator: Or, Not: false, Queries: [leaf 1, leaf 2] }.
C4_GroupAppendsSubNode ==
    [][ IsGroupReturn =>
          LET f == stack[Len(stack)]
              outerQ == currentQuery[f.outer]
              subQ == currentQuery[f.sub]
              log == oplog[f.sub]
          IN  /\ heap'[outerQ].Queries = Append(heap[outerQ].Queries, subQ)
              /\ heap'[outerQ].keys = heap[outerQ].keys \cup {"Queries"}
              /\ heap'[subQ] = Expected(f.sub)
              /\ last'.retB = f.outer
              /\ ( /\ ctor[f.sub] = Or /\ setop[f.sub] = undefined
                   /\ Len(log) = 2 /\ log[1].op = "add" /\ log[2].op = "add" )
                 => /\ heap'[subQ].keys = {"Operator", "Not", "Queries"}
                    /\ heap'[subQ].Operator = Or
                    /\ heap'[subQ].Not = FALSE
                    /\ Len(heap'[subQ].Queries) = 2
                    /\ heap'[heap'[subQ].Queries[1]] = LeafOf(log[1].args)
                    /\ heap'[heap'[subQ].Queries[2]] = LeafOf(log[2].args)
      ]_vars

C4_Witness ==
    /\ last.op = "groupReturn"
    /\ ctor[last.sub] = Or /\ setop[last.sub] = undefined
    /\ Len(oplog[last.sub]) = 2
    /\ oplog[last.sub][1].op = "add" /\ oplog[last.sub][2].op = "add"
    /\ oplog[last.sub][1].args # oplog[last.sub][2].args
    /\ Q(last.b).Queries = <<currentQuery[last.sub]>>
    /\ Q(last.sub).Operator = Or

\* C5: when the callback of a group() call throws, the call is left without
\* appending: no Query object changes in that step, so the outer node is what
\* it was at the throw and what the callback did before is kept.
C5_ThrowAppendsNothing ==
    [][ IsGroupThrow =>
          /\ heap' = heap
          /\ currentQuery' = currentQuery
          /\ last'.retB = 0
      ]_vars

C5_Witness ==
    /\ last.op = "groupThrow"
    /\ oplog[last.sub] # << >>
    /\ "Queries" \in Q(last.sub).keys
    /\ "Queries" \notin Q(last.b).keys
    /\ \A b \in Builders : currentQuery[last.sub] \notin Children(currentQuery[b])

\* C6 (as stated): a node that build() has returned keeps its operator and
\* its children through every later step.
C6_NeverMutatedAfterBuild ==
    [][ \A q \in built :
          /\ heap'[q].Operator = heap[q].Operator
          /\ heap'[q].Queries = heap[q].Queries
          /\ heap'[q].keys = heap[q].keys
      ]_vars

\* C6 (amended): build() returns the builder's own currentQuery object and
\* changes no object; an object that build() has returned changes later only
\* in a step of and(), or(), xor(), add() or a returning group() called on
\* the builder that owns it.
C6_MutatedOnlyThroughOwner ==
    [][ /\ \A q \in built :
             heap'[q] # heap[q] =>
                /\ last'.op \in {"and", "or", "xor", "add", "groupReturn"}
                /\ currentQuery[last'.b] = q
        /\ (last'.op = "build" /\ count'.builds = count.builds + 1) =>
                /\ last'.retQ = currentQuery[last'.b]
                /\ heap' = heap
      ]_vars

C6_Witness ==
    /\ last.op = "add"
    /\ currentQuery[last.b] \in built
    /\ owner[last.b] = 0

\* C7: and(), or() and xor() make Operator present with the value And, Or and
\* Xor whatever it was before, return the builder they were called on, and
\* leave Not, Queries, the other keys and every other object unchanged.
C7_SetOperator ==
    [][ IsSetCall =>
          LET b == last'.b
              q == currentQuery[b]
              op == CASE last'.op = "and" -> And
                      [] last'.op = "or" -> Or
                      [] last'.op = "xor" -> Xor
          IN  /\ "Operator" \in heap'[q].keys
              /\ heap'[q].Operator = op
              /\ heap'[q].keys \ {"Operator"} = heap[q].keys \ {"Operator"}
              /\ heap'[q].Not = heap[q].Not
              /\ heap'[q].Queries = heap[q].Queries
              /\ \A o \in Nodes \ {q} : heap'[o] = heap[o]
              /\ Len(heap') = Len(heap)
              /\ last'.retB = b
      ]_vars

C7_Witness ==
    /\ last.op = "xor"
    /\ ~last.had
    /\ Q(last.b).Operator = Xor
    /\ Q(last.b).Queries # << >>

\* C8: every Query object has Not present and false.
C8_NotAlwaysFalse ==
    \A q \in Nodes : "Not" \in heap[q].keys /\ heap[q].Not = FALSE

C8_Witness ==
    /\ last.op = "build" /\ owner[last.b] = 0
    /\ \E s \in Builders :
          /\ currentQuery[s] \in Children(last.retQ)
          /\ \E l \in Children(currentQuery[s]) : "Property" \in heap[l].keys

\* C9: no Query object carries leaf fields together with Operator or Queries:
\* the child of every add() call has Property, Filter and Value and neither
\* Operator nor Queries, and the node of every builder has no leaf field.
C9_LeafOrCombinator ==
    /\ \A q \in Nodes :
          ~ ( heap[q].keys \cap LeafKeys # {}
              /\ heap[q].keys \cap {"Operator", "Queries"} # {} )
    /\ \A b \in Builders :
          /\ Q(b).keys \cap LeafKeys = {}
          /\ \A i \in 1..Len(oplog[b]) :
                oplog[b][i].op = "add" =>
                   /\ LeafKeys \subseteq heap[oplog[b][i].child].keys
                   /\ "Operator" \notin heap[oplog[b][i].child].keys
                   /\ "Queries" \notin heap[oplog[b][i].child].keys

C9_Witness ==
    \E b \in Builders :
       /\ owner[b] = 0 /\ setop[b] # undefined
       /\ \E i, j \in 1..Len(oplog[b]) :
             oplog[b][i].op = "add" /\ oplog[b][j].op = "group"

RECURSIVE Reach(_, _)
\* the objects reachable from the set S in at most k steps along Queries
Reach(S, k) ==
    IF k = 0 THEN S
    ELSE Reach(S \cup UNION { Children(q) : q \in S }, k - 1)

\* the places where q is a child: <<parent, index>>
Places(q) ==
    { <<p, i>> \in Nodes \X (1..Len(heap)) :
         i <= Len(heap[p].Queries) /\ heap[p].Queries[i] = q }

\* C10: the objects form a tree: no object is its own descendant, none is a
\* child at two places, and every child is the leaf its add() call allocated
\* or the node of the sub-builder its group() call constructed.
C10_AlwaysATree ==
    /\ \A q \in Nodes : q \notin Reach(Children(q), Len(heap))
    /\ \A q \in Nodes : Cardinality(Places(q)) <= 1
    /\ \A b \in Builders : \A i \in 1..Len(oplog[b]) :
          LET e == oplog[b][i]
          IN  /\ e.op = "add" => \A s \in Builders : currentQuery[s] # e.child
              /\ e.op = "group" =>
                    \E s \in Builders : owner[s] = b /\ currentQuery[s] = e.child

C10_Witness ==
    /\ count.foreign > 0
    /\ \E b, s \in Builders :
          /\ owner[s] = b
          /\ Len(Q(b).Queries) = 2
          /\ Q(b).Queries[2] = currentQuery[s]
          /\ Children(currentQuery[s]) # {}
          /\ last.op = "add" /\ last.b = s
====
